---- MODULE Spec2Model ----
(***************************************************************************)
(* js4cpp::Array<int> (src/array.hpp): a JS-style array kept in a          *)
(* std::vector<T> data_.  The model keeps data_ as a TLA+ sequence         *)
(* (C++ index i is TLA+ index i + 1) and has one action per public         *)
(* operation.  Next to data_ the state records the last call, the array    *)
(* before it and what the call returned, so that the contracts of the      *)
(* operations can be stated over single states and single steps.           *)
(***************************************************************************)
EXTENDS Integers, Sequences, FiniteSets, TLC

\* ---- bounds of the exploration ----
MaxLen == 3
MaxVal == 1

\* ---- program constants ----
\* T() for T = int: what vector(n) and vector::resize fill new slots with
DefaultT == 0
\* "ssize_t end = 0": the default argument of slice
SliceDefaultEnd == 0

Values == 0..MaxVal
Arrays == UNION {[1..n -> Values] : n \in 0..MaxLen}
\* argument ranges: indexes on both sides of every array bound
SliceArgs == (0 - (MaxLen + 1))..(MaxLen + 1)
IndexArgs == 0..(MaxLen - 1)
StartArgs == 0..(MaxLen + 1)
Callbacks == {"plus", "minus"}
Relations == {"greater", "not_equal_to"}

VARIABLES
    data,        \* std::vector<T> data_
    intolerant,  \* whether the build defines INTOLERANT_TO_OUT_OF_RANGE_INDEXES
    call,        \* the last call: operation and arguments
    prev,        \* data_ when the last call was entered
    ret,         \* what the last call produced
    undone       \* for pop and shift: the push or unshift they directly follow

vars == <<data, intolerant, call, prev, ret, undone>>

\* ------------------------------------------------------------------------
\* std::vector and <algorithm>/<numeric> primitives, as the code uses them
\* ------------------------------------------------------------------------

\* vector(n): n value-initialised elements
VectorOfLength(n) == [k \in 1..n |-> DefaultT]

\* the range copied with its end included
VectorFromRange_ClosedEnd(d, b, e) == [k \in 1..(e - b + 1) |-> d[b + k]]

\* vector(first, last) over data_.begin() + b, data_.begin() + e
VectorFromRange(d, b, e) == [k \in 1..(e - b) |-> d[b + k]]

\* the iterator range [begin() + b, begin() + e) lies inside the vector
RangeInside(d, b, e) == 0 <= b /\ b <= e /\ e <= Len(d)

\* vector::resize(n), growing or shrinking
Resize(d, n) ==
    IF n <= Len(d) THEN SubSeq(d, 1, n)
    ELSE d \o [k \in 1..(n - Len(d)) |-> DefaultT]

push_back(d, v) == d \o <<v>>

\* the value inserted at end() in place of begin()
InsertAtBegin_AtEnd(d, v) == d \o <<v>>

InsertAtBegin(d, v) == <<v>> \o d

Back(d) == d[Len(d)]

\* the first element erased in place of the last
pop_back_EraseFirst(d) == SubSeq(d, 2, Len(d))

pop_back(d) == SubSeq(d, 1, Len(d) - 1)

Front(d) == d[1]

EraseBegin(d) == SubSeq(d, 2, Len(d))

\* the remainder of C++ integer division (truncating), n > 0
CRem(a, n) == IF a >= 0 THEN a % n ELSE 0 - ((0 - a) % n)

\* the binary callbacks handed to reduce
Callback(f, a, b) == IF f = "plus" THEN a + b ELSE a - b

\* the unary predicates handed to filter: bind(std::greater<int>(), _1, k) ...
Test(rel, k, x) == IF rel = "greater" THEN x > k ELSE x # k

\* std::accumulate(begin() + first, end(), init, callback), first <= size
RECURSIVE Accumulate(_, _, _, _)
Accumulate(d, first, init, f) ==
    IF first >= Len(d) THEN init
    ELSE Accumulate(d, first + 1, Callback(f, init, d[first + 1]), f)

\* the test handed to remove_copy_if without std::not1
Not1Test_NotNegated(rel, k, x) == Test(rel, k, x)

\* std::not1(test), the predicate filter hands to remove_copy_if
Not1Test(rel, k, x) == ~Test(rel, k, x)

\* std::remove_copy_if(begin() + first, end(), back_inserter(out), not1(test))
RECURSIVE RemoveCopyIf(_, _, _, _, _)
RemoveCopyIf(d, first, out, rel, k) ==
    IF first >= Len(d) THEN out
    ELSE RemoveCopyIf(d, first + 1,
                      IF Not1Test(rel, k, d[first + 1])
                          THEN out ELSE push_back(out, d[first + 1]),
                      rel, k)

\* std::reverse(begin(), end())
Reverse(d) == [k \in 1..Len(d) |-> d[Len(d) - k + 1]]

\* std::for_each(begin(), end(), callback) with the callback  x = c
ForEachAssign(d, c) == [k \in 1..Len(d) |-> c]

\* ------------------------------------------------------------------------
\* What a call produced
\* ------------------------------------------------------------------------

\* outcome: "ok", or "undefined" when the call left defined C++ behaviour
\* val: the T returned, arr: the Array returned, ref: the index operator[]
\* returned a reference to, oob: an element outside [0, size) was accessed,
\* modulo/copied/b/e: the path slice took and its normalized begin and end
NoRet ==
    [outcome |-> "ok", val |-> 0, arr |-> <<>>, ref |-> 0, oob |-> FALSE,
     modulo |-> FALSE, copied |-> FALSE, b |-> 0, e |-> 0]

UndefinedRet(garbage) ==
    [NoRet EXCEPT !.outcome = "undefined", !.val = garbage, !.oob = TRUE]

NoCall(op) == [op |-> op, i |-> 0, e |-> 0, v |-> 0, f |-> "", k |-> 0]

\* the insertion a removal directly follows: its operation, the value it
\* inserted and the array it was made on
NoInsert == [op |-> "none", v |-> 0, data |-> <<>>]

Insertion ==
    IF call.op \in {"push", "unshift"}
    THEN [op |-> call.op, v |-> call.v, data |-> prev]
    ELSE NoInsert

\* ------------------------------------------------------------------------
\* Array<T>::slice
\* ------------------------------------------------------------------------

\* the first if of slice without its two lower-bound tests
SliceOutOfRange_NoLowerBound(length, begin, end) ==
    \/ begin >= length
    \/ end >= length

\* the first if of slice: an index outside [-length, length)
SliceOutOfRange(length, begin, end) ==
    \/ begin >= length
    \/ begin < 0 - length
    \/ end >= length
    \/ end < 0 - length

\* begin = (length + begin) % length
SliceNormalize(length, k) == CRem(length + k, length)

\* the second if of slice
SliceInverted(b, e) == e < b

slice(d, begin, end) ==
    LET length == Len(d) IN
    IF SliceOutOfRange(length, begin, end) THEN NoRet
    ELSE IF length = 0
        THEN [NoRet EXCEPT !.outcome = "undefined", !.modulo = TRUE]
    ELSE
        LET b == SliceNormalize(length, begin)
            e == SliceNormalize(length, end)
            r == [NoRet EXCEPT !.modulo = TRUE, !.b = b, !.e = e]
        IN  IF SliceInverted(b, e) THEN r
            ELSE IF RangeInside(d, b, e)
                THEN [r EXCEPT !.copied = TRUE, !.arr = VectorFromRange(d, b, e)]
            ELSE [r EXCEPT !.copied = TRUE, !.outcome = "undefined",
                           !.oob = TRUE]

\* ------------------------------------------------------------------------
\* Array<T>::operator[]
\* ------------------------------------------------------------------------

\* the resize to i in place of i + 1
IndexResize_OneShort(d, i, intol) ==
    IF ~intol /\ i >= Len(d) THEN Resize(d, i) ELSE d

\* the resize under #ifndef INTOLERANT_TO_OUT_OF_RANGE_INDEXES
IndexResize(d, i, intol) ==
    IF ~intol /\ i >= Len(d) THEN Resize(d, i + 1) ELSE d

\* ------------------------------------------------------------------------
\* Actions: one per public operation
\* ------------------------------------------------------------------------

Init ==
    /\ intolerant \in BOOLEAN
    /\ \E n \in 0..MaxLen :
        /\ data = VectorOfLength(n)
        /\ call = [NoCall("Array") EXCEPT !.i = n]
    /\ prev = <<>>
    /\ ret = NoRet
    /\ undone = NoInsert

\* a call is made on an array whose state is still defined
Callable == ret.outcome = "ok"

\* explicit Array(size_t length): a fresh array replaces the one at hand
Construct ==
    \E n \in 0..MaxLen :
        /\ data' = VectorOfLength(n)
        /\ call' = [NoCall("Array") EXCEPT !.i = n]
        /\ prev' = data
        /\ ret' = NoRet
        /\ UNCHANGED intolerant
        /\ undone' = NoInsert

\* operator[] used as an rvalue:  x = a[i]
OpIndex ==
    \E i \in IndexArgs :
        /\ Callable
        /\ call' = [NoCall("index") EXCEPT !.i = i]
        /\ prev' = data
        /\ LET d == IndexResize(data, i, intolerant) IN
            IF i < Len(d)
            THEN /\ data' = d
                 /\ ret' = [NoRet EXCEPT !.val = d[i + 1], !.ref = i]
            ELSE /\ data' = data
                 /\ \E g \in Values : ret' = UndefinedRet(g)
        /\ UNCHANGED intolerant
        /\ undone' = NoInsert

\* operator[] used as an lvalue:  a[i] = v
OpIndexAssign ==
    \E i \in IndexArgs, v \in Values :
        /\ Callable
        /\ call' = [NoCall("indexAssign") EXCEPT !.i = i, !.v = v]
        /\ prev' = data
        /\ LET d == IndexResize(data, i, intolerant) IN
            IF i < Len(d)
            THEN /\ data' = [d EXCEPT ![i + 1] = v]
                 /\ ret' = [NoRet EXCEPT !.val = v, !.ref = i]
            ELSE /\ data' = data
                 /\ ret' = UndefinedRet(v)
        /\ UNCHANGED intolerant
        /\ undone' = NoInsert

push ==
    \E v \in Values :
        /\ Callable
        /\ Len(data) < MaxLen
        /\ call' = [NoCall("push") EXCEPT !.v = v]
        /\ prev' = data
        /\ data' = push_back(data, v)
        /\ ret' = NoRet
        /\ UNCHANGED intolerant
        /\ undone' = NoInsert

unshift ==
    \E v \in Values :
        /\ Callable
        /\ Len(data) < MaxLen
        /\ call' = [NoCall("unshift") EXCEPT !.v = v]
        /\ prev' = data
        /\ data' = InsertAtBegin(data, v)
        /\ ret' = NoRet
        /\ UNCHANGED intolerant
        /\ undone' = NoInsert

\* back() and pop_back() on an empty vector are undefined
pop ==
    /\ Callable
    /\ call' = NoCall("pop")
    /\ prev' = data
    /\ IF Len(data) > 0
       THEN /\ ret' = [NoRet EXCEPT !.val = Back(data)]
            /\ data' = pop_back(data)
       ELSE /\ \E g \in Values : ret' = UndefinedRet(g)
            /\ data' \in Arrays
    /\ UNCHANGED intolerant
    /\ undone' = Insertion

\* front() and erase(begin()) on an empty vector are undefined
shift ==
    /\ Callable
    /\ call' = NoCall("shift")
    /\ prev' = data
    /\ IF Len(data) > 0
       THEN /\ ret' = [NoRet EXCEPT !.val = Front(data)]
            /\ data' = EraseBegin(data)
       ELSE /\ \E g \in Values : ret' = UndefinedRet(g)
            /\ data' \in Arrays
    /\ UNCHANGED intolerant
    /\ undone' = Insertion

reverse ==
    /\ Callable
    /\ call' = NoCall("reverse")
    /\ prev' = data
    /\ data' = Reverse(data)
    /\ ret' = NoRet
    /\ UNCHANGED intolerant
    /\ undone' = NoInsert

\* sort() with the default comparator std::less<T>
sort ==
    /\ Callable
    /\ call' = NoCall("sort")
    /\ prev' = data
    /\ data' = SortSeq(data, LAMBDA x, y : x < y)
    /\ ret' = NoRet
    /\ UNCHANGED intolerant
    /\ undone' = NoInsert

forEach ==
    \E c \in Values :
        /\ Callable
        /\ call' = [NoCall("forEach") EXCEPT !.v = c]
        /\ prev' = data
        /\ data' = ForEachAssign(data, c)
        /\ ret' = NoRet
        /\ UNCHANGED intolerant
        /\ undone' = NoInsert

\* slice(begin): end takes its default argument
sliceDefault ==
    \E begin \in SliceArgs :
        /\ Callable
        /\ call' = [NoCall("sliceDefault") EXCEPT !.i = begin]
        /\ prev' = data
        /\ ret' = slice(data, begin, SliceDefaultEnd)
        /\ UNCHANGED <<data, intolerant>>
        /\ undone' = NoInsert

\* slice(begin, end)
sliceBoth ==
    \E begin \in SliceArgs, end \in SliceArgs :
        /\ Callable
        /\ call' = [NoCall("slice") EXCEPT !.i = begin, !.e = end]
        /\ prev' = data
        /\ ret' = slice(data, begin, end)
        /\ UNCHANGED <<data, intolerant>>
        /\ undone' = NoInsert

filter ==
    \E rel \in Relations, k \in Values :
        /\ Callable
        /\ call' = [NoCall("filter") EXCEPT !.f = rel, !.k = k]
        /\ prev' = data
        /\ ret' = [NoRet EXCEPT !.arr = RemoveCopyIf(data, 0, <<>>, rel, k)]
        /\ UNCHANGED <<data, intolerant>>
        /\ undone' = NoInsert

\* reduce(callback): return reduce(callback, data_[0], 1);
\* data_[0] on an empty vector is undefined
reduceNoInitial ==
    \E f \in Callbacks :
        /\ Callable
        /\ call' = [NoCall("reduce") EXCEPT !.f = f]
        /\ prev' = data
        /\ IF Len(data) > 0
           THEN ret' = [NoRet EXCEPT !.val = Accumulate(data, 1, data[1], f)]
           ELSE \E g \in Values : ret' = UndefinedRet(g)
        /\ UNCHANGED <<data, intolerant>>
        /\ undone' = NoInsert

\* reduce(callback, initialValue, startFrom);
\* begin() + startFrom past end() is undefined
reduceInitial ==
    \E f \in Callbacks, init \in Values, startFrom \in StartArgs :
        /\ Callable
        /\ call' = [NoCall("reduceInitial")
                        EXCEPT !.f = f, !.v = init, !.i = startFrom]
        /\ prev' = data
        /\ IF startFrom <= Len(data)
           THEN ret' = [NoRet EXCEPT !.val = Accumulate(data, startFrom, init, f)]
           ELSE \E g \in Values : ret' = UndefinedRet(g)
        /\ UNCHANGED <<data, intolerant>>
        /\ undone' = NoInsert

Next ==
    \/ Construct
    \/ OpIndex
    \/ OpIndexAssign
    \/ push
    \/ unshift
    \/ pop
    \/ shift
    \/ reverse
    \/ sort
    \/ forEach
    \/ sliceDefault
    \/ sliceBoth
    \/ filter
    \/ reduceNoInitial
    \/ reduceInitial

Spec == Init /\ [][Next]_vars

\* ------------------------------------------------------------------------
\* The contracts
\* ------------------------------------------------------------------------

\* the index a JS-style index k names in an array of length n
Wrap(n, k) == IF k >= 0 THEN k ELSE n + k

\* the elements of d at the C++ indexes [b, e), in order
Elements(d, b, e) == SubSeq(d, b + 1, e)

InRange(n, k) == 0 - n <= k /\ k < n

\* C1: slice(begin) with end omitted and begin in [-n, n) returns the source
\* elements at [b, n), b the wrapped begin, and leaves the array alone.
C1_SliceDefaultEndIsLength ==
    (call.op = "sliceDefault" /\ InRange(Len(prev), call.i)) =>
        /\ ret.outcome = "ok"
        /\ ret.arr = Elements(prev, Wrap(Len(prev), call.i), Len(prev))
        /\ data = prev

\* C2: slice(begin, end) is empty when an index lies outside [-n, n) or the
\* wrapped end is <= the wrapped begin, is otherwise the source elements at
\* the wrapped [begin, end), and never fails, n = 0 included.
C2_SliceBoth ==
    call.op = "slice" =>
        LET n == Len(prev)
            b == Wrap(n, call.i)
            e == Wrap(n, call.e)
        IN  /\ ret.outcome = "ok"
            /\ ret.arr = IF \/ ~InRange(n, call.i)
                            \/ ~InRange(n, call.e)
                            \/ e <= b
                         THEN <<>>
                         ELSE Elements(prev, b, e)

C2_Witness ==
    /\ call.op = "slice"
    /\ call.i < 0
    /\ call.e < 0
    /\ Len(ret.arr) = 2
    /\ ret.arr[1] # ret.arr[2]

\* C10: slice takes the remainder by the length only when the length is
\* positive, its normalized begin and end lie in [0, n), what it copies
\* satisfies 0 <= begin <= end <= n, it reads nothing outside [0, n) and it
\* leaves the source array alone.
C10_SliceSafe ==
    call.op \in {"slice", "sliceDefault"} =>
        LET n == Len(prev) IN
            /\ ret.modulo => (n > 0 /\ ret.b \in 0..(n - 1) /\ ret.e \in 0..(n - 1))
            /\ ret.copied => (0 <= ret.b /\ ret.b <= ret.e /\ ret.e <= n)
            /\ ~ret.oob
            /\ ret.outcome = "ok"
            /\ data = prev

C10_Witness ==
    /\ call.op = "slice"
    /\ call.i < 0
    /\ ret.modulo
    /\ ret.copied
    /\ ret.b > 0
    /\ ret.e > ret.b

\* C3: on an empty array pop(), shift() and reduce() without an initial
\* value fail with EmptyContainerError, read nothing outside the live range
\* and leave the array empty.
C3_EmptyFailsExplicitly ==
    (call.op \in {"pop", "shift", "reduce"} /\ prev = <<>>) =>
        /\ ret.outcome = "EmptyContainerError"
        /\ ~ret.oob
        /\ data = <<>>

\* C4: in the auto-extending build operator[] at i >= length makes the
\* length i + 1, fills the new slots with T(), keeps the elements below the
\* old length and returns slot i; at i < length it changes nothing.  (After
\* a[i] = v slot i holds v, which the caller stored through the reference.)
C4_IndexAutoExtend ==
    (~intolerant /\ call.op \in {"index", "indexAssign"}) =>
        LET n == Len(prev)
            i == call.i
            Stored(k) == call.op = "indexAssign" /\ k = i
        IN  /\ ret.outcome = "ok"
            /\ ret.ref = i
            /\ Len(data) = (IF i >= n THEN i + 1 ELSE n)
            /\ ret.val = data[i + 1]
            /\ \A k \in 0..(Len(data) - 1) :
                data[k + 1] = IF Stored(k) THEN call.v
                              ELSE IF k < n THEN prev[k + 1]
                              ELSE DefaultT

C4_Witness ==
    /\ ~intolerant
    /\ call.op = "index"
    /\ Len(prev) = 1
    /\ prev[1] # DefaultT
    /\ call.i = 2
    /\ Len(data) = 3

\* C5: an indexed read at i >= length, and an indexed write at i >= length
\* in the build without auto-extension, fail with IndexError and leave the
\* length and the elements alone.
C5_OutOfRangeIndexFails ==
    (/\ call.i >= Len(prev)
     /\ \/ call.op = "index"
        \/ call.op = "indexAssign" /\ intolerant) =>
        /\ ret.outcome = "IndexError"
        /\ data = prev

\* C6: push(v) makes the array one longer with v last and the earlier
\* elements as they were; a pop() directly after it returns v and restores
\* the length and the contents from before the push.
C6_PushPop ==
    /\ call.op = "push" =>
        /\ Len(data) = Len(prev) + 1
        /\ data[Len(data)] = call.v
        /\ \A k \in 1..Len(prev) : data[k] = prev[k]
    /\ (call.op = "pop" /\ undone.op = "push") =>
        /\ ret.outcome = "ok"
        /\ ret.val = undone.v
        /\ Len(data) = Len(undone.data)
        /\ data = undone.data

C6_Witness ==
    /\ call.op = "pop"
    /\ undone.op = "push"
    /\ Len(undone.data) >= 2
    /\ undone.v # undone.data[Len(undone.data)]
    /\ undone.v # undone.data[1]

RECURSIVE FoldLeft(_, _, _)
FoldLeft(s, init, f) ==
    IF s = <<>> THEN init
    ELSE Callback(f, FoldLeft(SubSeq(s, 1, Len(s) - 1), init, f), s[Len(s)])

RECURSIVE Sum(_)
Sum(s) == IF s = <<>> THEN 0 ELSE s[1] + Sum(Tail(s))

\* C8: on a non-empty array reduce(callback) is the left fold over the
\* elements at 1..length-1 seeded with element 0 (the sum of all elements
\* for addition); reduce(callback, initial, startFrom) is the left fold over
\* startFrom..length-1 seeded with initial; neither changes the array.
C8_Reduce ==
    /\ (call.op = "reduce" /\ prev # <<>>) =>
        /\ ret.outcome = "ok"
        /\ ret.val = FoldLeft(Tail(prev), prev[1], call.f)
        /\ call.f = "plus" => ret.val = Sum(prev)
        /\ data = prev
    /\ call.op = "reduceInitial" =>
        /\ ret.outcome = "ok"
        /\ ret.val = FoldLeft(Elements(prev, call.i, Len(prev)), call.v, call.f)
        /\ data = prev

\* C8 within the array: the same, for startFrom <= length only.
C8_ReduceWithinLength ==
    /\ (call.op = "reduce" /\ prev # <<>>) =>
        /\ ret.outcome = "ok"
        /\ ret.val = FoldLeft(Tail(prev), prev[1], call.f)
        /\ call.f = "plus" => ret.val = Sum(prev)
        /\ data = prev
    /\ (call.op = "reduceInitial" /\ call.i <= Len(prev)) =>
        /\ ret.outcome = "ok"
        /\ ret.val = FoldLeft(Elements(prev, call.i, Len(prev)), call.v, call.f)
        /\ data = prev

====
